---- MODULE Spec2Model ----
(***************************************************************************)
(* A model of cfp-to-jpz.py: the Crossword / AcrossliteCrossword           *)
(* constructors (grid, rebus table, circles, numbering, answer table, clue *)
(* table, answer-clue table, location table) followed by the Jpz encoder   *)
(* (grid block, word-location block, clue blocks) and write_jpz.           *)
(*                                                                         *)
(* One run of the script is one behaviour: pc walks through the methods in *)
(* the order the constructors call them.  Each method is one action.  A    *)
(* raised exception ends the run in pc = "failed" with the exception's     *)
(* name in error.  The sections of the input file are drawn when the       *)
(* method that parses them runs.                                           *)
(*                                                                         *)
(* Strings of the grid are sequences of one-character strings; Python's    *)
(* 0-based lists and arrays are 1-based sequences read through Py, which   *)
(* keeps Python's wrap-around for the index -1.                            *)
(***************************************************************************)
EXTENDS Integers, Sequences, FiniteSets, TLC

(***************************************************************************)
(* Bounds of the model.                                                    *)
(***************************************************************************)
MaxRows == 3
MaxCols == 3
MaxCells == 9
MaxFreeCells == 4

VARIABLES
    pc,                 \* the method that runs next, "done" or "failed"
    error,              \* the exception that ended the run, "" if none
    raised_in,          \* the method that raised it, "" if none
    dialect,            \* "cfp" (Crossword) or "txt" (AcrossliteCrossword)
    file_rows,          \* the grid rows as the input file holds them
    n_acrosses,         \* AcrossLite: number of lines after <ACROSS>
    n_downs,            \* AcrossLite: number of lines after <DOWN>
    grid,               \* self.grid
    grid_letters,       \* self._grid_letters
    n_rows,             \* self.n_rows
    n_cols,             \* self.n_cols
    rebus_dict,         \* self._rebus_dict
    circles,            \* self._circles
    numbering,          \* self._numbering
    across_nums,        \* self._across_nums
    down_nums,          \* self._down_nums
    across_starts,      \* self._across_starts
    down_starts,        \* self._down_starts
    across_words,       \* self._across_words
    down_words,         \* self._down_words
    cat_across_starts,  \* self._cat_across_starts
    cat_down_starts,    \* self._cat_down_starts
    answer_dict,        \* self._answer_dict
    clue_dict,          \* self.clue_dict
    ans_clue_dict,      \* self.ans_clue_dict
    location_dict,      \* self._location_dict
    grid_strings,       \* Jpz.grid_strings
    location_strings,   \* Jpz.location_strings
    clue_strings,       \* Jpz.clue_strings
    jpz_file            \* the output file: <<>> until write_jpz creates it

errVars == <<error, raised_in>>
inputVars == <<dialect, file_rows>>
gridVars == <<grid, grid_letters, n_rows, n_cols>>
sizeVars == <<n_acrosses, n_downs>>
numVars == <<numbering, across_nums, down_nums, across_starts, down_starts,
             across_words, down_words, cat_across_starts, cat_down_starts>>
dictVars == <<answer_dict, clue_dict, ans_clue_dict, location_dict>>
jpzVars == <<grid_strings, location_strings, clue_strings, jpz_file>>
vars == <<pc, errVars, inputVars, sizeVars, gridVars, rebus_dict, circles,
          numVars, dictVars, jpzVars>>

(***************************************************************************)
(* Python helpers.                                                         *)
(***************************************************************************)
Block == "."

\* seq[k] for a Python index k: 0-based, and -1 is the last element.
Py(seq, k) == IF k < 0 THEN seq[Len(seq) + k + 1] ELSE seq[k + 1]

\* array[i, j]
Get(array, i, j) == Py(Py(array, i), j)

\* array[i, j] = v  (i, j >= 0)
Put(array, i, j, v) == [array EXCEPT ![i + 1][j + 1] = v]

RECURSIVE Concat(_)
\* the concatenation of a sequence of sequences
Concat(seqs) ==
    IF seqs = <<>> THEN <<>> ELSE Head(seqs) \o Concat(Tail(seqs))

RECURSIVE Sorted(_)
\* sorted(list) of numbers
Sorted(seq) ==
    IF seq = <<>> THEN <<>>
    ELSE LET lo == CHOOSE k \in 1..Len(seq) :
                       \A m \in 1..Len(seq) : seq[k] <= seq[m]
         IN  <<seq[lo]>> \o
             Sorted(SubSeq(seq, 1, lo - 1) \o SubSeq(seq, lo + 1, Len(seq)))

RECURSIVE SplitFrom(_, _, _)
SplitFrom(row, k, cur) ==
    IF k > Len(row) THEN <<cur>>
    ELSE IF row[k] = Block
         THEN <<cur>> \o SplitFrom(row, k + 1, <<>>)
         ELSE SplitFrom(row, k + 1, Append(cur, row[k]))

\* row.split('.')
Split(row) == SplitFrom(row, 1, <<>>)

NonEmpty(b) == Len(b) > 0

\* [b for b in row.split('.') if len(b) > 0]
Words(row) == SelectSeq(Split(row), NonEmpty)

(***************************************************************************)
(* get_numbering: the numbering scan (lines 114-161).  The scan state is   *)
(* the record [numbering, across_nums, down_nums, count].                  *)
(***************************************************************************)

\* numbering[i, j] = -1 raises IndexError when a row holds a '.' past
\* column n_cols - 1 (only a ragged grid has such a row).
BlocksIndexError(letters, C) ==
    \E i \in 1..Len(letters) : \E j \in 1..Len(letters[i]) :
        letters[i][j] = Block /\ j > C

RECURSIVE MarkRow(_, _, _)
\* One row of np.zeros((n_rows, n_cols)), with -1 where the letter is '.'
MarkRow(row, C, j) ==
    IF j > C THEN <<>>
    ELSE <<IF j <= Len(row) /\ row[j] = Block THEN -1 ELSE 0>>
         \o MarkRow(row, C, j + 1)

RECURSIVE MarkRows(_, _, _, _)
MarkRows(letters, R, C, i) ==
    IF i > R THEN <<>>
    ELSE <<MarkRow(letters[i], C, 1)>> \o MarkRows(letters, R, C, i + 1)

\* np.zeros((n_rows, n_cols)) with -1 where the letter is '.'
MarkBlocks(letters, R, C) == MarkRows(letters, R, C, 1)

\* A faulty TopRowStep: the counter advances once for the down entry and
\* once more for the across entry.
TopRowStepCountsTwice(st, i) ==
    IF Get(st.numbering, 0, i) = 0
    THEN LET placed == Put(st.numbering, 0, i, st.count)
             isAcross == Py(Py(placed, 0), i - 1) = -1 \/ i = 0
         IN  [numbering |-> placed,
              down_nums |-> Append(st.down_nums, st.count),
              across_nums |->
                  IF isAcross THEN Append(st.across_nums, st.count)
                  ELSE st.across_nums,
              count |-> IF isAcross THEN st.count + 2 ELSE st.count + 1]
    ELSE st

\* One iteration of the loop over row 0, at column i.
TopRowStep(st, i) ==
    IF Get(st.numbering, 0, i) = 0
    THEN LET placed == Put(st.numbering, 0, i, st.count)
         IN  [numbering |-> placed,
              down_nums |-> Append(st.down_nums, st.count),
              across_nums |->
                  IF Py(Py(placed, 0), i - 1) = -1 \/ i = 0
                  THEN Append(st.across_nums, st.count)
                  ELSE st.across_nums,
              count |-> st.count + 1]
    ELSE st

RECURSIVE TopRowScan(_, _)
TopRowScan(st, i) ==
    IF i >= Len(st.numbering[1]) THEN st
    ELSE TopRowScan(TopRowStep(st, i), i + 1)

\* A faulty ScanCell: the look-ahead from a blocked cell to the cell on its
\* right is missing.
ScanCellNoLookahead(st, i, j) ==
    LET num == Get(st.numbering, i, j)
    IN  IF i = 0 THEN st
        ELSE IF j = 0 /\ num > -1
        THEN [numbering |-> Put(st.numbering, i, j, st.count),
              across_nums |-> Append(st.across_nums, st.count),
              down_nums |->
                  IF Get(st.numbering, i - 1, j) = -1
                  THEN Append(st.down_nums, st.count)
                  ELSE st.down_nums,
              count |-> st.count + 1]
        ELSE IF num = 0 /\ Get(st.numbering, i - 1, j) = -1
        THEN [numbering |-> Put(st.numbering, i, j, st.count),
              down_nums |-> Append(st.down_nums, st.count),
              across_nums |->
                  IF Get(st.numbering, i, j - 1) = -1
                  THEN Append(st.across_nums, st.count)
                  ELSE st.across_nums,
              count |-> st.count + 1]
        ELSE st

\* One iteration of the nested loop over all cells, at row i, column j.
ScanCell(st, i, j) ==
    LET num == Get(st.numbering, i, j)
        C == Len(st.numbering[1])
    IN  IF i = 0 THEN st
        ELSE IF j = 0 /\ num > -1
        THEN [numbering |-> Put(st.numbering, i, j, st.count),
              across_nums |-> Append(st.across_nums, st.count),
              down_nums |->
                  IF Get(st.numbering, i - 1, j) = -1
                  THEN Append(st.down_nums, st.count)
                  ELSE st.down_nums,
              count |-> st.count + 1]
        ELSE IF num = 0 /\ Get(st.numbering, i - 1, j) = -1
        THEN [numbering |-> Put(st.numbering, i, j, st.count),
              down_nums |-> Append(st.down_nums, st.count),
              across_nums |->
                  IF Get(st.numbering, i, j - 1) = -1
                  THEN Append(st.across_nums, st.count)
                  ELSE st.across_nums,
              count |-> st.count + 1]
        ELSE IF num = -1 /\ j < C - 1 /\ Get(st.numbering, i, j + 1) > -1
        THEN [numbering |-> Put(st.numbering, i, j + 1, st.count),
              across_nums |-> Append(st.across_nums, st.count),
              down_nums |->
                  IF Get(st.numbering, i - 1, j + 1) = -1
                  THEN Append(st.down_nums, st.count)
                  ELSE st.down_nums,
              count |-> st.count + 1]
        ELSE st

RECURSIVE CellScan(_, _, _)
CellScan(st, i, j) ==
    IF i >= Len(st.numbering) THEN st
    ELSE IF j >= Len(st.numbering[1]) THEN CellScan(st, i + 1, 0)
    ELSE CellScan(ScanCell(st, i, j), i, j + 1)

\* Lines 116-161: the numbering grid with across_nums and down_nums.
NumberingScan(letters, R, C) ==
    CellScan(
        TopRowScan([numbering |-> MarkBlocks(letters, R, C),
                    across_nums |-> <<>>, down_nums |-> <<>>, count |-> 1],
                   0),
        0, 0)

(***************************************************************************)
(* get_numbering: starts and words (lines 163-208).                        *)
(***************************************************************************)

\* A faulty IsStart: the test for index 0 is missing, so the index before
\* it wraps around to the end of the line.
IsStartNoEdge(line, i) == Py(line, i - 1) = -1 /\ Py(line, i) > -1

\* Whether index i of a row (or column) of the numbering goes into this_row.
IsStart(line, i) ==
    LET num == Py(line, i)
    IN  IF i = 0 /\ num > -1 THEN TRUE
        ELSE Py(line, i - 1) = -1 /\ num > -1

RECURSIVE StartsFrom(_, _)
StartsFrom(line, i) ==
    IF i >= Len(line) THEN <<>>
    ELSE (IF IsStart(line, i) THEN <<Py(line, i)>> ELSE <<>>)
         \o StartsFrom(line, i + 1)

\* this_row / this_col of one row / column of the numbering
Starts(line) == StartsFrom(line, 0)

\* numbering.T
Transpose(array) ==
    [j \in 1..Len(array[1]) |-> [i \in 1..Len(array) |-> array[i][j]]]

AcrossStarts(array) == [i \in 1..Len(array) |-> Starts(array[i])]

DownStarts(array) ==
    LET T == Transpose(array) IN [j \in 1..Len(T) |-> Starts(T[j])]

\* grid_flip reads row[i] of every row for i < len(grid[0]): IndexError when
\* some row is shorter than row 0.
FlipIndexError(g) == \E i \in 1..Len(g) : Len(g[i]) < Len(g[1])

GridFlip(g) == [j \in 1..Len(g[1]) |-> [i \in 1..Len(g) |-> g[i][j]]]

AcrossWords(g) == [i \in 1..Len(g) |-> Words(g[i])]

DownWords(g) == LET F == GridFlip(g) IN [j \in 1..Len(F) |-> Words(F[j])]

\* A number as numpy holds it: its value and whether its dtype is float64.
Num(v, f) == [v |-> v, f |-> f]

\* sorted(list(np.concatenate(starts))): np.concatenate turns an empty list
\* into a float64 array, and then the whole result is float64.
CatStarts(starts) ==
    LET isFloat == \E i \in 1..Len(starts) : starts[i] = <<>>
        vals == Sorted(Concat(starts))
    IN  [k \in 1..Len(vals) |-> Num(vals[k], isFloat)]

(***************************************************************************)
(* Dictionaries.  _answer_dict[dir] and _location_dict are functions from  *)
(* the clue number; clue_dict[dir] and ans_clue_dict keep Python's         *)
(* insertion order (encode_clues iterates over it) and are sequences of    *)
(* entries.                                                                *)
(***************************************************************************)
EmptyDict == [k \in {} |-> <<>>]

\* d[k] = v
Assign(d, k, v) == [x \in DOMAIN d \cup {k} |-> IF x = k THEN v ELSE d[x]]

\* d[key] = value for an insertion-ordered dict keyed by numbers: an int and
\* a float64 of the same value are the same key.
DictSet(d, key, value) ==
    IF \E k \in 1..Len(d) : d[k].num.v = key.v
    THEN [k \in 1..Len(d) |->
             IF d[k].num.v = key.v THEN [d[k] EXCEPT !.clue = value] ELSE d[k]]
    ELSE Append(d, [num |-> key, clue |-> value])

KeyValues(d) == [k \in 1..Len(d) |-> d[k].num.v]

(***************************************************************************)
(* get_answer_dict (lines 212-230).                                        *)
(***************************************************************************)

\* A faulty PairStart: the starts of a row are paired with its words from
\* the wrong end.
PairStartReversed(d, start_row, words, j) ==
    Assign(d, start_row[j], words[Len(start_row) + 1 - j])

\* answer_dict[dir][num] = words[i][j] for the j-th start of one row
PairStart(d, start_row, words, j) == Assign(d, start_row[j], words[j])

RECURSIVE PairRow(_, _, _, _)
PairRow(d, start_row, words, j) ==
    IF j > Len(start_row) THEN d
    ELSE PairRow(PairStart(d, start_row, words, j), start_row, words, j + 1)

RECURSIVE PairRows(_, _, _, _)
PairRows(d, starts, words, i) ==
    IF i > Len(starts) THEN d
    ELSE PairRows(PairRow(d, starts[i], words[i], 1), starts, words, i + 1)

\* words[i][j] raises IndexError when a row has more starts than words.
PairIndexError(starts, words) ==
    \E i \in 1..Len(starts) : Len(starts[i]) > Len(words[i])

AnswerDict(starts, words) == PairRows(EmptyDict, starts, words, 1)

(***************************************************************************)
(* get_answer_clue_dict (lines 261-286).  The fold state is the record     *)
(* [dict, error]: the table built so far and the exception raised, if any. *)
(***************************************************************************)

RECURSIVE ExpandFrom(_, _, _)
ExpandFrom(ans, rd, k) ==
    IF k > Len(ans) THEN <<>>
    ELSE (IF ans[k] \in DOMAIN rd THEN rd[ans[k]] ELSE <<ans[k]>>)
         \o ExpandFrom(ans, rd, k + 1)

\* the answer with its rebus codes replaced by their strings
Expand(ans, rd) ==
    IF \E k \in 1..Len(ans) : ans[k] \in DOMAIN rd
    THEN ExpandFrom(ans, rd, 1)
    ELSE ans

\* A faulty HasAnswer: an answer is never found in the table.
HasAnswerBlind(acd, ans) == FALSE

HasAnswer(acd, ans) == \E k \in 1..Len(acd) : acd[k].ans = ans

\* The body of the inner loop for the key k of clue_dict[dir_].
AddAnswer(st, answers, clues, rd, k) ==
    IF st.error # "" THEN st
    ELSE IF k \notin DOMAIN answers THEN [st EXCEPT !.error = "KeyError"]
    ELSE LET ans == Expand(answers[k], rd)
             clue == (CHOOSE e \in {clues[m] : m \in 1..Len(clues)} :
                          e.num.v = k).clue
         IN  IF ~HasAnswer(st.dict, ans)
             THEN [st EXCEPT !.dict = Append(@, [ans |-> ans, clue |-> clue])]
             ELSE [st EXCEPT !.error = "ValueError"]

RECURSIVE AddAnswers(_, _, _, _, _, _)
AddAnswers(st, answers, clues, rd, keys, m) ==
    IF m > Len(keys) THEN st
    ELSE AddAnswers(AddAnswer(st, answers, clues, rd, keys[m]),
                    answers, clues, rd, keys, m + 1)

\* for k in sorted(self.clue_dict[dir_].keys())
AnswerClueDir(st, answers, clues, rd) ==
    AddAnswers(st, answers, clues, rd, Sorted(KeyValues(clues)), 1)

AnswerClueDict(ad, cd, rd) ==
    AnswerClueDir(
        AnswerClueDir([dict |-> <<>>, error |-> ""], ad.across, cd.across, rd),
        ad.down, cd.down, rd)

(***************************************************************************)
(* get_location_dict (lines 288-295).                                      *)
(***************************************************************************)
RECURSIVE LocationsFrom(_, _, _, _)
LocationsFrom(d, array, i, j) ==
    IF i >= Len(array) THEN d
    ELSE IF j >= Len(array[1]) THEN LocationsFrom(d, array, i + 1, 0)
    ELSE LocationsFrom(
             IF Get(array, i, j) > 0
             THEN Assign(d, Get(array, i, j), <<i, j>>) ELSE d,
             array, i, j + 1)

LocationDict(array) == LocationsFrom(EmptyDict, array, 0, 0)

(***************************************************************************)
(* The Jpz encoder (lines 585-715).  A fragment is modelled by a record of *)
(* the values the format string is filled with.                            *)
(***************************************************************************)

\* '{}'.format(n) for a number: a float64 prints with its decimal point.
Format(n) == IF n.f THEN ToString(n.v) \o ".0" ELSE ToString(n.v)

\* A faulty LinearIndex: the row and the column change places.
LinearIndexTransposed(i, j, C) == i + C * j

\* ind_d1 = j + crossword.n_cols*i
LinearIndex(i, j, C) == j + C * i

InList(x, list) == \E k \in 1..Len(list) : list[k] = x

\* The fragment encode_grid appends for the cell at row i, column j.
EncodeCell(array, g, rd, circ, C, i, j) ==
    LET k == Get(array, i, j)
        letter == Py(Py(g, i), j)
    IN  IF k = -1
        THEN [type |-> "block", x |-> j + 1, y |-> i + 1, solution |-> <<>>,
              number |-> "", circle |-> FALSE]
        ELSE [type |-> "cell", x |-> j + 1, y |-> i + 1,
              solution |-> IF letter \in DOMAIN rd THEN rd[letter]
                           ELSE <<letter>>,
              number |-> IF k = 0 THEN "" ELSE ToString(k),
              circle |-> InList(LinearIndex(i, j, C), circ)]

RECURSIVE EncodeCells(_, _, _, _, _, _, _)
EncodeCells(array, g, rd, circ, C, i, j) ==
    IF i >= Len(array) THEN <<>>
    ELSE IF j >= Len(array[1]) THEN EncodeCells(array, g, rd, circ, C, i + 1, 0)
    ELSE <<EncodeCell(array, g, rd, circ, C, i, j)>>
         \o EncodeCells(array, g, rd, circ, C, i, j + 1)

\* grid_strings: the <grid> opening, the cells, the grid-look and closing.
EncodeGrid(array, g, rd, circ, R, C) ==
    <<[type |-> "grid", height |-> R, width |-> C]>>
    \o EncodeCells(array, g, rd, circ, C, 0, 0)
    \o <<[type |-> "grid-look"]>>

\* np.max(self._xw._numbering)
MaxNumber(array) ==
    CHOOSE m \in {array[i][j] : i \in 1..Len(array), j \in 1..Len(array[1])} :
        \A i \in 1..Len(array) : \A j \in 1..Len(array[1]) : array[i][j] <= m

\* a in self._xw._cat_across_starts
InStarts(a, cat) == \E k \in 1..Len(cat) : cat[k].v = a

\* A faulty AcrossWord: x is taken from the row and y from the column.
AcrossWordSwapped(a, answers, loc) ==
    [id |-> ToString(a) \o "0000",
     cells |-> [c \in 1..Len(answers[a]) |->
                   [x |-> loc[a][1] + 1 + (c - 1), y |-> loc[a][2] + 1]]]

\* The <word> element of the across entry a, with its <cells> elements.
AcrossWord(a, answers, loc) ==
    [id |-> ToString(a) \o "0000",
     cells |-> [c \in 1..Len(answers[a]) |->
                   [x |-> loc[a][2] + 1 + (c - 1), y |-> loc[a][1] + 1]]]

\* The <word> element of the down entry a, with its <cells> elements.
DownWord(a, answers, loc) ==
    [id |-> ToString(a) \o "0001",
     cells |-> [c \in 1..Len(answers[a]) |->
                   [x |-> loc[a][2] + 1, y |-> loc[a][1] + 1 + (c - 1)]]]

RECURSIVE EncodeLocationsDownFirst(_, _, _, _, _, _)
\* A faulty EncodeLocationsFrom: the down word of a number is emitted before
\* its across word.
EncodeLocationsDownFirst(a, top, catA, catD, ad, loc) ==
    IF a > top THEN <<>>
    ELSE (IF InStarts(a, catD) THEN <<DownWord(a, ad.down, loc)>>
          ELSE <<>>)
         \o (IF InStarts(a, catA) THEN <<AcrossWord(a, ad.across, loc)>>
             ELSE <<>>)
         \o EncodeLocationsDownFirst(a + 1, top, catA, catD, ad, loc)

RECURSIVE EncodeLocationsFrom(_, _, _, _, _, _)
EncodeLocationsFrom(a, top, catA, catD, ad, loc) ==
    IF a > top THEN <<>>
    ELSE (IF InStarts(a, catA) THEN <<AcrossWord(a, ad.across, loc)>>
          ELSE <<>>)
         \o (IF InStarts(a, catD) THEN <<DownWord(a, ad.down, loc)>>
             ELSE <<>>)
         \o EncodeLocationsFrom(a + 1, top, catA, catD, ad, loc)

\* location_strings: for a in range(1, np.max(numbering)+1)
EncodeLocations(array, catA, catD, ad, loc) ==
    EncodeLocationsFrom(1, MaxNumber(array), catA, catD, ad, loc)

\* A faulty ClueElement: the clue text is left out.
ClueElementBlank(entry, suffix) ==
    [type |-> "clue", number |-> Format(entry.num),
     word |-> Format(entry.num) \o suffix, clue |-> ""]

\* The <clue> element of one item of clue_dict[dir].
ClueElement(entry, suffix) ==
    [type |-> "clue", number |-> Format(entry.num),
     word |-> Format(entry.num) \o suffix, clue |-> entry.clue]

ClueElements(d, suffix) == [k \in 1..Len(d) |-> ClueElement(d[k], suffix)]

\* clue_strings: the Across title, its clues, the Down title, its clues.
EncodeClues(cd) ==
    <<[type |-> "title", title |-> "Across"]>>
    \o ClueElements(cd.across, "0000")
    \o <<[type |-> "title", title |-> "Down"]>>
    \o ClueElements(cd.down, "0001")
    \o <<[type |-> "end"]>>

(***************************************************************************)
(* The input files the model draws from.                                   *)
(***************************************************************************)
Letters == <<"A", "B", "C", "D", "E", "F", "G", "H",
             "I", "J", "K", "L", "M", "N", "O", "P">>

\* The rebus symbol of the input files (AcrossLite uses digits).
RebusSymbol == "1"

FreeAlphabet == {Block, "A", RebusSymbol}

\* The clue text of the input files.
ClueText == "clue"

\* Rectangular grids with every block pattern, each open cell holding the
\* letter of its position (so an answer names its cells).
PatternGrids ==
    UNION {
        { [i \in 1..R |-> [j \in 1..C |->
              IF (i - 1) * C + j \in B THEN Block
              ELSE Letters[(i - 1) * C + j]]] : B \in SUBSET (1..(R * C)) }
        : <<R, C>> \in {rc \in (1..MaxRows) \X (1..MaxCols) :
                           rc[1] * rc[2] <= MaxCells} }

\* Small rectangular grids over blocks, one letter and the rebus symbol
\* (so answers repeat and rebus symbols occur).
FreeGrids ==
    UNION { [1..R -> [1..C -> FreeAlphabet]]
            : <<R, C>> \in {rc \in (1..MaxFreeCells) \X (1..MaxFreeCells) :
                               rc[1] * rc[2] <= MaxFreeCells} }

\* Two rows of different lengths, with every block pattern.
RaggedGrids ==
    { <<[j \in 1..lens[1] |-> IF j \in B THEN Block ELSE Letters[j]],
        [j \in 1..lens[2] |-> IF lens[1] + j \in B THEN Block
                              ELSE Letters[lens[1] + j]]>>
      : lens \in {<<1, 2>>, <<2, 1>>}, B \in SUBSET (1..3) }

\* The 5x5 grid with no block whose every cell holds the letter A.
OpenGridOfAs == [i \in 1..5 |-> [j \in 1..5 |-> "A"]]

Grids == PatternGrids \cup FreeGrids \cup RaggedGrids \cup {OpenGridOfAs}

IsRectangular(rows) == \A i \in 1..Len(rows) : Len(rows[i]) = Len(rows[1])

HasSymbol(rows) ==
    \E i \in 1..Len(rows) : \E j \in 1..Len(rows[i]) : rows[i][j] = RebusSymbol

\* The rebus tables of the input files: none, or the symbol standing for AA.
RebusFiles(rows) ==
    {EmptyDict} \cup
    (IF HasSymbol(rows) THEN {[c \in {RebusSymbol} |-> <<"A", "A">>]} ELSE {})

\* The <CIRCLES> lines of the .cfp input files.
CircleFiles == {<<>>, <<3, 1>>}

\* AcrossLite: the cell indices written in lower case, and whether the file
\* holds the MARK; line.
LowerFiles(rows) ==
    {[lower |-> {}, mark |-> FALSE], [lower |-> {1, 3}, mark |-> FALSE]} \cup
    (IF HasSymbol(rows) THEN {[lower |-> {}, mark |-> TRUE]} ELSE {})

Reverse(seq) == [k \in 1..Len(seq) |-> seq[Len(seq) + 1 - k]]

\* seq without its k-th element (seq itself when it is empty)
Without(seq, k) ==
    IF seq = <<>> THEN <<>>
    ELSE [m \in 1..(Len(seq) - 1) |-> IF m < k THEN seq[m] ELSE seq[m + 1]]

First(seq) == IF seq = <<>> THEN <<>> ELSE <<seq[1]>>

WordLines(nums, text) ==
    [k \in 1..Len(nums) |-> [num |-> nums[k], clue |-> text]]

\* The <WORD> lines of the .cfp input files, for a grid whose across entries
\* are numbered A and whose down entries are numbered D: a line for every
\* entry in ascending or in descending order, the first across or the last
\* down line left out, a line for a number K that starts no entry, or a
\* first across line with no text.
CfpClueFiles(A, D, K) ==
    { [across |-> WordLines(A, ClueText), down |-> WordLines(D, ClueText)],
      [across |-> WordLines(Reverse(A), ClueText),
       down |-> WordLines(Reverse(D), ClueText)],
      [across |-> WordLines(Without(A, 1), ClueText),
       down |-> WordLines(D, ClueText)],
      [across |-> WordLines(A, ClueText),
       down |-> WordLines(Without(D, Len(D)), ClueText)],
      [across |-> WordLines(A \o <<K>>, ClueText),
       down |-> WordLines(D, ClueText)],
      [across |-> WordLines(First(A), "")
                  \o WordLines(Without(A, 1), ClueText),
       down |-> WordLines(D, ClueText)] }

\* AcrossLite: the numbers of lines after <ACROSS> and after <DOWN>, for a
\* grid with a across entries and d down entries: one line per entry, one
\* across line or one down line too few, or one across line too many.
TxtClueCounts(a, d) ==
    {<<a, d>>, <<a + 1, d>>} \cup
    (IF a > 0 THEN {<<a - 1, d>>} ELSE {}) \cup
    (IF d > 0 THEN {<<a, d - 1>>} ELSE {})

(***************************************************************************)
(* The run.                                                                *)
(***************************************************************************)
Init ==
    /\ pc = "get_metadata"
    /\ error = ""
    /\ raised_in = ""
    /\ dialect \in {"cfp", "txt"}
    /\ file_rows \in Grids
    /\ n_acrosses = 0
    /\ n_downs = 0
    /\ grid = <<>>
    /\ grid_letters = <<>>
    /\ n_rows = 0
    /\ n_cols = 0
    /\ rebus_dict = EmptyDict
    /\ circles = <<>>
    /\ numbering = <<>>
    /\ across_nums = <<>>
    /\ down_nums = <<>>
    /\ across_starts = <<>>
    /\ down_starts = <<>>
    /\ across_words = <<>>
    /\ down_words = <<>>
    /\ cat_across_starts = <<>>
    /\ cat_down_starts = <<>>
    /\ answer_dict = [across |-> EmptyDict, down |-> EmptyDict]
    /\ clue_dict = [across |-> <<>>, down |-> <<>>]
    /\ ans_clue_dict = <<>>
    /\ location_dict = EmptyDict
    /\ grid_strings = <<>>
    /\ location_strings = <<>>
    /\ clue_strings = <<>>
    /\ jpz_file = <<>>

\* A faulty Raise: the exception is recorded and the script goes on to
\* write the output.
RaiseAndWrite(exception) ==
    /\ pc' = "write_jpz"
    /\ error' = exception
    /\ raised_in' = pc

\* An exception propagates out of __main__: the run ends.
Raise(exception) ==
    /\ pc' = "failed"
    /\ error' = exception
    /\ raised_in' = pc

\* The numbers of across and of down entries of the input grid.
EntryCounts(rows) ==
    LET array == NumberingScan(rows, Len(rows), Len(rows[1])).numbering
    IN  <<Len(Concat(AcrossStarts(array))), Len(Concat(DownStarts(array)))>>

\* Crossword.get_metadata reads only the title, author, copyright and notes,
\* which the model leaves out.  AcrossliteCrossword.get_metadata also reads
\* <SIZE> (here the length of the first grid row, or one more, and the
\* number of grid rows), counts the clue lines, and raises when a section is
\* missing; self._rebus_start = rebus_start raises UnboundLocalError when the
\* file has no <REBUS> section.
get_metadata ==
    /\ pc = "get_metadata"
    /\ IF dialect = "cfp"
       THEN /\ pc' = "get_grid"
            /\ UNCHANGED <<errVars, sizeVars, n_rows, n_cols>>
       ELSE \E size_cols \in {Len(file_rows[1]), Len(file_rows[1]) + 1},
               counts \in TxtClueCounts(EntryCounts(file_rows)[1],
                                        EntryCounts(file_rows)[2]),
               rebus_section \in BOOLEAN :
                IF counts[1] = 0 \/ counts[2] = 0
                THEN /\ Raise("RuntimeError")
                     /\ UNCHANGED <<sizeVars, n_rows, n_cols>>
                ELSE IF ~rebus_section
                THEN /\ Raise("UnboundLocalError")
                     /\ UNCHANGED <<sizeVars, n_rows, n_cols>>
                ELSE /\ pc' = "get_grid"
                     /\ n_rows' = Len(file_rows)
                     /\ n_cols' = size_cols
                     /\ n_acrosses' = counts[1]
                     /\ n_downs' = counts[2]
                     /\ UNCHANGED errVars
    /\ UNCHANGED <<inputVars, grid, grid_letters, rebus_dict, circles,
                   numVars, dictVars, jpzVars>>

\* np.array of rows of different lengths raises ValueError (numpy >= 1.24)
\* or builds an array of lists (older numpy): the script pins no version.
ArrayRaises(rows) == IF IsRectangular(rows) THEN {FALSE} ELSE BOOLEAN

\* Crossword.get_grid (lines 61-77) and AcrossliteCrossword.get_grid
\* (lines 460-472).
get_grid ==
    /\ pc = "get_grid"
    /\ \E raises \in ArrayRaises(file_rows) :
        IF dialect = "txt" /\ Len(file_rows[1]) # n_cols
        THEN /\ Raise("AssertionError")
             /\ UNCHANGED gridVars
        ELSE IF raises
        THEN /\ Raise("ValueError")
             /\ UNCHANGED gridVars
        ELSE /\ pc' = "get_rebus_dict"
             /\ grid' = file_rows
             /\ grid_letters' = file_rows
             /\ n_rows' = Len(file_rows)
             /\ n_cols' = Len(file_rows[1])
             /\ UNCHANGED errVars
    /\ UNCHANGED <<inputVars, sizeVars, rebus_dict, circles, numVars,
                   dictVars, jpzVars>>

\* get_rebus_dict (lines 79-99, 474-482): the table the file's rebus lines
\* spell out.
get_rebus_dict ==
    /\ pc = "get_rebus_dict"
    /\ \E table \in RebusFiles(file_rows) : rebus_dict' = table
    /\ pc' = "get_circles"
    /\ UNCHANGED <<errVars, inputVars, sizeVars, gridVars, circles, numVars,
                   dictVars, jpzVars>>

\* list(np.concatenate(self._grid_letters))
ListOfLetters(letters) == Concat(letters)

IsDigit(c) == c = RebusSymbol

\* AcrossliteCrossword.get_circles: the indices of the lower-case letters
\* and, with MARK;, of the digits.
LowerCircles(letters, lower, mark) ==
    LET list == ListOfLetters(letters)
        circled == {c \in 0..(Len(list) - 1) :
                       \/ c \in lower /\ list[c + 1] # Block
                                      /\ ~IsDigit(list[c + 1])
                       \/ mark /\ IsDigit(list[c + 1])}
    IN  Sorted(CHOOSE seq \in [1..Cardinality(circled) -> circled] :
                   \A c \in circled : \E k \in DOMAIN seq : seq[k] = c)

\* get_circles (lines 101-112, 484-504).  The model holds the AcrossLite
\* grid in upper case from the start, with the lower-case cells as a set.
get_circles ==
    /\ pc = "get_circles"
    /\ IF dialect = "cfp"
       THEN \E list \in CircleFiles : circles' = list
       ELSE \E f \in LowerFiles(file_rows) :
                circles' = LowerCircles(grid_letters, f.lower, f.mark)
    /\ pc' = "get_numbering"
    /\ UNCHANGED <<errVars, inputVars, sizeVars, gridVars, rebus_dict, numVars,
                   dictVars, jpzVars>>

\* get_numbering (lines 114-210).
get_numbering ==
    /\ pc = "get_numbering"
    /\ IF BlocksIndexError(grid_letters, n_cols) \/ FlipIndexError(grid)
       THEN /\ Raise("IndexError")
            /\ UNCHANGED numVars
       ELSE LET st == NumberingScan(grid_letters, n_rows, n_cols)
            IN  /\ numbering' = st.numbering
                /\ across_nums' = st.across_nums
                /\ down_nums' = st.down_nums
                /\ across_starts' = AcrossStarts(st.numbering)
                /\ down_starts' = DownStarts(st.numbering)
                /\ across_words' = AcrossWords(grid)
                /\ down_words' = DownWords(grid)
                /\ cat_across_starts' = CatStarts(AcrossStarts(st.numbering))
                /\ cat_down_starts' = CatStarts(DownStarts(st.numbering))
                /\ pc' = "get_answer_dict"
                /\ UNCHANGED errVars
    /\ UNCHANGED <<inputVars, sizeVars, gridVars, rebus_dict, circles,
                   dictVars, jpzVars>>

\* get_answer_dict (lines 212-230).
get_answer_dict ==
    /\ pc = "get_answer_dict"
    /\ IF \/ PairIndexError(across_starts, across_words)
          \/ PairIndexError(down_starts, down_words)
       THEN /\ Raise("IndexError")
            /\ UNCHANGED answer_dict
       ELSE LET built == [across |-> AnswerDict(across_starts, across_words),
                          down |-> AnswerDict(down_starts, down_words)]
            IN  IF \/ Cardinality(DOMAIN built.across) # Len(across_nums)
                   \/ Cardinality(DOMAIN built.down) # Len(down_nums)
                THEN /\ Raise("AssertionError")
                     /\ UNCHANGED answer_dict
                ELSE /\ answer_dict' = built
                     /\ pc' = "get_clue_dict"
                     /\ UNCHANGED errVars
    /\ UNCHANGED <<inputVars, sizeVars, gridVars, rebus_dict, circles,
                   numVars, clue_dict, ans_clue_dict, location_dict, jpzVars>>

RECURSIVE ParseWordLines(_, _, _)
\* clue_dict[dir_][num_] = clue for the <WORD> lines of one direction
ParseWordLines(d, lines, k) ==
    IF k > Len(lines) THEN d
    ELSE ParseWordLines(DictSet(d, Num(lines[k].num, FALSE), lines[k].clue),
                        lines, k + 1)

\* clue_dict[dir][cat_starts[i]] = row for the first n clue lines
TxtClues(cat, n) == [i \in 1..n |-> [num |-> cat[i], clue |-> ClueText]]

Values(cat) == [k \in 1..Len(cat) |-> cat[k].v]

\* Crossword.get_clue_dict (lines 232-259) and
\* AcrossliteCrossword.get_clue_dict (lines 506-517).
get_clue_dict ==
    /\ pc = "get_clue_dict"
    /\ IF dialect = "cfp"
       THEN \E f \in CfpClueFiles(Values(cat_across_starts),
                                  Values(cat_down_starts),
                                  MaxNumber(numbering) + 1) :
                /\ clue_dict' = [across |-> ParseWordLines(<<>>, f.across, 1),
                                 down |-> ParseWordLines(<<>>, f.down, 1)]
                /\ pc' = "get_answer_clue_dict"
                /\ UNCHANGED errVars
       ELSE IF \/ n_acrosses > Len(cat_across_starts)
               \/ n_downs > Len(cat_down_starts)
            THEN /\ Raise("IndexError")
                 /\ UNCHANGED clue_dict
            ELSE /\ clue_dict' = [across |-> TxtClues(cat_across_starts,
                                                      n_acrosses),
                                  down |-> TxtClues(cat_down_starts, n_downs)]
                 /\ pc' = "get_answer_clue_dict"
                 /\ UNCHANGED errVars
    /\ UNCHANGED <<inputVars, sizeVars, gridVars, rebus_dict, circles,
                   numVars, answer_dict, ans_clue_dict, location_dict,
                   jpzVars>>

\* get_answer_clue_dict (lines 261-286).
get_answer_clue_dict ==
    /\ pc = "get_answer_clue_dict"
    /\ LET st == AnswerClueDict(answer_dict, clue_dict, rebus_dict)
       IN  IF st.error # ""
           THEN /\ Raise(st.error)
                /\ UNCHANGED ans_clue_dict
           ELSE /\ ans_clue_dict' = st.dict
                /\ pc' = "get_location_dict"
                /\ UNCHANGED errVars
    /\ UNCHANGED <<inputVars, sizeVars, gridVars, rebus_dict, circles,
                   numVars, answer_dict, clue_dict, location_dict, jpzVars>>

\* get_location_dict (lines 288-295).
get_location_dict ==
    /\ pc = "get_location_dict"
    /\ location_dict' = LocationDict(numbering)
    /\ pc' = "encode_grid"
    /\ UNCHANGED <<errVars, inputVars, sizeVars, gridVars, rebus_dict, circles,
                   numVars, answer_dict, clue_dict, ans_clue_dict, jpzVars>>

\* Jpz.encode_grid (lines 585-638); encode_metadata before it formats the
\* metadata, which the model leaves out.
encode_grid ==
    /\ pc = "encode_grid"
    /\ grid_strings' = EncodeGrid(numbering, grid, rebus_dict, circles,
                                  n_rows, n_cols)
    /\ pc' = "encode_locations"
    /\ UNCHANGED <<errVars, inputVars, sizeVars, gridVars, rebus_dict, circles,
                   numVars, dictVars, location_strings, clue_strings,
                   jpz_file>>

\* Jpz.encode_locations (lines 640-672).
encode_locations ==
    /\ pc = "encode_locations"
    /\ location_strings' = EncodeLocations(numbering, cat_across_starts,
                                           cat_down_starts, answer_dict,
                                           location_dict)
    /\ pc' = "encode_clues"
    /\ UNCHANGED <<errVars, inputVars, sizeVars, gridVars, rebus_dict, circles,
                   numVars, dictVars, grid_strings, clue_strings, jpz_file>>

\* Jpz.encode_clues (lines 674-715).
encode_clues ==
    /\ pc = "encode_clues"
    /\ clue_strings' = EncodeClues(clue_dict)
    /\ pc' = "write_jpz"
    /\ UNCHANGED <<errVars, inputVars, sizeVars, gridVars, rebus_dict, circles,
                   numVars, dictVars, grid_strings, location_strings,
                   jpz_file>>

\* Jpz.write_jpz (lines 717-761): the file is opened and every fragment
\* written to it.
write_jpz ==
    /\ pc = "write_jpz"
    /\ jpz_file' = <<grid_strings, location_strings, clue_strings>>
    /\ pc' = "done"
    /\ UNCHANGED <<errVars, inputVars, sizeVars, gridVars, rebus_dict, circles,
                   numVars, dictVars, grid_strings, location_strings,
                   clue_strings>>

Next ==
    \/ get_metadata
    \/ get_grid
    \/ get_rebus_dict
    \/ get_circles
    \/ get_numbering
    \/ get_answer_dict
    \/ get_clue_dict
    \/ get_answer_clue_dict
    \/ get_location_dict
    \/ encode_grid
    \/ encode_locations
    \/ encode_clues
    \/ write_jpz

Spec == Init /\ [][Next]_vars

(***************************************************************************)
(* What the properties are stated with: the order of the methods, and the  *)
(* anchors and runs of the grid read off the grid itself.                  *)
(***************************************************************************)
Methods == <<"get_metadata", "get_grid", "get_rebus_dict", "get_circles",
             "get_numbering", "get_answer_dict", "get_clue_dict",
             "get_answer_clue_dict", "get_location_dict", "encode_grid",
             "encode_locations", "encode_clues", "write_jpz", "done">>

Position(m) == CHOOSE k \in 1..Len(Methods) : Methods[k] = m

\* The method the run is in (the one that raised, for a failed run).
Current == IF pc = "failed" THEN raised_in ELSE pc

\* The method m has returned.
Returned(m) == Position(Current) > Position(m)

Rows == 1..Len(grid)
Cols == 1..Len(grid[1])

Open(i, j) == grid[i][j] # Block

\* The cell starts a horizontal run / a vertical run of open cells.
AcrossAnchor(i, j) == Open(i, j) /\ (j = 1 \/ ~Open(i, j - 1))
DownAnchor(i, j) == Open(i, j) /\ (i = 1 \/ ~Open(i - 1, j))
Anchor(i, j) == AcrossAnchor(i, j) \/ DownAnchor(i, j)

\* The last column of the maximal run of open cells from (i, j) rightwards,
\* and the last row of the maximal run from (i, j) downwards.
RunEndRight(i, j) ==
    CHOOSE e \in j..Len(grid[i]) :
        /\ \A k \in j..e : Open(i, k)
        /\ e = Len(grid[i]) \/ ~Open(i, e + 1)
RunEndDown(i, j) ==
    CHOOSE e \in i..Len(grid) :
        /\ \A k \in i..e : Open(k, j)
        /\ e = Len(grid) \/ ~Open(e + 1, j)

\* The strings of those runs.
RunRight(i, j) == [k \in 1..(RunEndRight(i, j) - j + 1) |-> grid[i][j + k - 1]]
RunDown(i, j) == [k \in 1..(RunEndDown(i, j) - i + 1) |-> grid[i + k - 1][j]]

Positive(n) == n > 0

(***************************************************************************)
(* C1: for a rectangular grid the Numbering Grid is -1 exactly on the      *)
(* blocked cells, positive exactly on the open cells that are in row 0 or  *)
(* column 0 or have a blocked cell above or to the left, and 0 on every    *)
(* other open cell.                                                        *)
(***************************************************************************)
C1_Numbering ==
    (IsRectangular(file_rows) /\ Returned("get_numbering")) =>
        /\ Len(numbering) = Len(grid)
        /\ \A i \in Rows :
            /\ Len(numbering[i]) = Len(grid[1])
            /\ \A j \in Cols :
                /\ numbering[i][j] = -1 <=> ~Open(i, j)
                /\ numbering[i][j] > 0 <=> Anchor(i, j)
                /\ (Open(i, j) /\ ~Anchor(i, j)) => numbering[i][j] = 0

\* A 3x3 grid with a blocked cell, a numbered cell right of a block under an
\* open cell, and an unnumbered open cell.
C1_Witness ==
    /\ IsRectangular(file_rows) /\ Returned("get_numbering")
    /\ Len(grid) = 3 /\ Len(grid[1]) = 3
    /\ numbering[2][1] = -1 /\ Open(1, 2) /\ numbering[2][2] > 0
    /\ numbering[3][3] = 0

(***************************************************************************)
(* C2: for a rectangular grid the positive entries of the Numbering Grid,  *)
(* read in row-major order, are 1, 2, ..., K, where K is the number of     *)
(* anchor cells (a cell that anchors both directions counts once).         *)
(***************************************************************************)
C2_Consecutive ==
    (IsRectangular(file_rows) /\ Returned("get_numbering")) =>
        LET positives == SelectSeq(Concat(numbering), Positive)
            K == Cardinality({c \in Rows \X Cols : Anchor(c[1], c[2])})
        IN  /\ Len(positives) = K
            /\ \A k \in 1..K : positives[k] = k

\* A cell off the top row and the left column anchors both directions, after
\* at least three other anchors.
C2_Witness ==
    /\ IsRectangular(file_rows) /\ Returned("get_numbering")
    /\ \E i \in Rows \ {1} : \E j \in Cols \ {1} :
        /\ AcrossAnchor(i, j) /\ DownAnchor(i, j)
        /\ numbering[i][j] >= 4
        /\ AcrossAnchor(1, 1) /\ DownAnchor(1, 1)

(***************************************************************************)
(* C3: for a rectangular grid the across answer of a clue number is the    *)
(* maximal run of open cells from its anchor cell rightwards (the i-th     *)
(* across start of a row pairs with the i-th non-empty fragment of the     *)
(* row), and the down answer the maximal run from its anchor downwards.    *)
(***************************************************************************)
C3_Answers ==
    (IsRectangular(file_rows) /\ Returned("get_answer_dict")) =>
        /\ DOMAIN answer_dict.across =
               {numbering[c[1]][c[2]] : c \in {d \in Rows \X Cols :
                                                  AcrossAnchor(d[1], d[2])}}
        /\ DOMAIN answer_dict.down =
               {numbering[c[1]][c[2]] : c \in {d \in Rows \X Cols :
                                                  DownAnchor(d[1], d[2])}}
        /\ \A i \in Rows : \A j \in Cols :
            /\ AcrossAnchor(i, j) =>
                   answer_dict.across[numbering[i][j]] = RunRight(i, j)
            /\ DownAnchor(i, j) =>
                   answer_dict.down[numbering[i][j]] = RunDown(i, j)
        /\ \A i \in Rows : \A k \in 1..Len(across_starts[i]) :
               answer_dict.across[across_starts[i][k]] = Words(grid[i])[k]

\* A row with two across entries and a column with two down entries, in a
\* grid with an across and a down answer of more than one letter.
C3_Witness ==
    /\ IsRectangular(file_rows) /\ Returned("get_answer_dict")
    /\ \E i \in Rows : Len(across_starts[i]) = 2
    /\ \E j \in Cols : Len(down_starts[j]) = 2
    /\ \E n \in DOMAIN answer_dict.across : Len(answer_dict.across[n]) > 1
    /\ \E n \in DOMAIN answer_dict.down : Len(answer_dict.down[n]) > 1

\* The number of maximal runs of open cells of a row or column of letters.
RunCount(line) ==
    Cardinality({k \in 1..Len(line) :
                    line[k] # Block /\ (k = 1 \/ line[k - 1] = Block)})

(***************************************************************************)
(* C4: for a rectangular grid every row has as many across starts as       *)
(* maximal horizontal runs and every column as many down starts as maximal *)
(* vertical runs; the answer table has as many across (down) answers as    *)
(* the scan recorded across (down) numbers, and neither get_numbering nor  *)
(* get_answer_dict raises.                                                 *)
(***************************************************************************)
C4_Counts ==
    IsRectangular(file_rows) =>
        /\ ~(pc = "failed" /\ raised_in \in {"get_numbering", "get_answer_dict"})
        /\ Returned("get_numbering") =>
            /\ Len(across_starts) = Len(grid)
            /\ Len(down_starts) = Len(grid[1])
            /\ \A i \in Rows :
                /\ Len(across_starts[i]) = RunCount(grid[i])
                /\ Len(across_words[i]) = RunCount(grid[i])
            /\ \A j \in Cols :
                /\ Len(down_starts[j]) = RunCount([i \in Rows |-> grid[i][j]])
                /\ Len(down_words[j]) = RunCount([i \in Rows |-> grid[i][j]])
        /\ Returned("get_answer_dict") =>
            /\ Cardinality(DOMAIN answer_dict.across) = Len(across_nums)
            /\ Cardinality(DOMAIN answer_dict.down) = Len(down_nums)

\* get_answer_dict has returned for a grid with a row of two runs whose last
\* cell is open, and a row of no run.
C4_Witness ==
    /\ IsRectangular(file_rows) /\ Returned("get_answer_dict")
    /\ \E i \in Rows : /\ Len(across_starts[i]) = 2
                       /\ Open(i, Len(grid[i]))
    /\ \E i \in Rows : Len(across_starts[i]) = 0

(***************************************************************************)
(* The entries of the puzzle and the blocks of the output.                 *)
(***************************************************************************)
Directions == {"across", "down"}

Suffix(dir) == IF dir = "across" THEN "0000" ELSE "0001"

\* The entries the grid analysis derives: a direction and a clue number.
Entries == {e \in Directions \X (0..(MaxCells + 1)) :
               e[2] \in DOMAIN answer_dict[e[1]]}

ExpandedAnswer(e) == Expand(answer_dict[e[1]][e[2]], rebus_dict)

\* The Clue Table has an entry for the clue number n in direction dir.
HasClue(dir, n) ==
    \E k \in 1..Len(clue_dict[dir]) : clue_dict[dir][k].num.v = n

ClueOf(dir, n) ==
    (CHOOSE e \in {clue_dict[dir][k] : k \in 1..Len(clue_dict[dir])} :
         e.num.v = n).clue

TitleIndex(title) ==
    CHOOSE k \in 1..Len(clue_strings) :
        clue_strings[k].type = "title" /\ clue_strings[k].title = title

\* The clue elements of the across block and of the down block.
ClueBlock(dir) ==
    IF dir = "across"
    THEN SubSeq(clue_strings, TitleIndex("Across") + 1, TitleIndex("Down") - 1)
    ELSE SubSeq(clue_strings, TitleIndex("Down") + 1, Len(clue_strings) - 1)

\* The clue elements of a block that carry the clue number n.
CluesFor(dir, n) ==
    {k \in 1..Len(ClueBlock(dir)) :
        ClueBlock(dir)[k].number \in {ToString(n), ToString(n) \o ".0"}}

WordIds == {location_strings[k].id : k \in 1..Len(location_strings)}

(***************************************************************************)
(* C5: whenever two distinct entries have equal answers after rebus        *)
(* expansion, get_answer_clue_dict raises: it never returns for a puzzle   *)
(* with such a pair.                                                       *)
(***************************************************************************)
C5_DuplicatesRejected ==
    (IsRectangular(file_rows) /\ Returned("get_answer_clue_dict")) =>
        \A e1 \in Entries : \A e2 \in Entries :
            e1 # e2 => ExpandedAnswer(e1) # ExpandedAnswer(e2)

(***************************************************************************)
(* C6 as claimed: when the Clue Table has no entry for a derived clue      *)
(* number, the output carries a clue element for that number with empty    *)
(* text.                                                                   *)
(***************************************************************************)
C6_EmptyClueForMissing ==
    Returned("encode_clues") =>
        \A e \in Entries :
            ~HasClue(e[1], e[2]) =>
                \E k \in CluesFor(e[1], e[2]) : ClueBlock(e[1])[k].clue = ""

\* Every key of the Clue Table is a derived clue number of its direction.
NoStrayClue ==
    \A dir \in Directions : \A k \in 1..Len(clue_dict[dir]) :
        clue_dict[dir][k].num.v \in DOMAIN answer_dict[dir]

\* No two entries that have clues have equal expanded answers.
NoCluedDuplicate ==
    \A e1 \in Entries : \A e2 \in Entries :
        (e1 # e2 /\ HasClue(e1[1], e1[2]) /\ HasClue(e2[1], e2[2]))
            => ExpandedAnswer(e1) # ExpandedAnswer(e2)

(***************************************************************************)
(* C6 as amended: a derived clue number with no entry in the Clue Table    *)
(* does not abort the run (once the Clue Table is read, a run fails only   *)
(* on a key that is no derived number or on two clued entries with equal   *)
(* answers), and the output carries no clue element for that number, while *)
(* its word element is emitted; an entry of the Clue Table, also one with  *)
(* empty text, gives exactly one clue element, with the entry's text.      *)
(***************************************************************************)
C6_NoClueForMissing ==
    /\ (Returned("get_clue_dict") /\ NoStrayClue /\ NoCluedDuplicate)
           => pc # "failed"
    /\ Returned("encode_clues") =>
        \A e \in Entries :
            /\ ToString(e[2]) \o Suffix(e[1]) \in WordIds
            /\ IF HasClue(e[1], e[2])
               THEN /\ Cardinality(CluesFor(e[1], e[2])) = 1
                    /\ \A k \in CluesFor(e[1], e[2]) :
                           ClueBlock(e[1])[k].clue = ClueOf(e[1], e[2])
               ELSE CluesFor(e[1], e[2]) = {}

\* The output is written for a puzzle with an across entry that has no clue
\* in the Clue Table, while other entries have one.
C6_Witness ==
    /\ pc = "done"
    /\ \E n \in DOMAIN answer_dict.across : ~HasClue("across", n)
    /\ Len(clue_dict.across) > 0

(***************************************************************************)
(* C7: a grid whose rows differ in length is rejected before any numbering *)
(* is computed and before any output is produced.                          *)
(***************************************************************************)
C7_RaggedRejected ==
    ~IsRectangular(file_rows) =>
        /\ numbering = <<>>
        /\ jpz_file = <<>>
        /\ pc # "done"

\* The <word> elements an entry anchored at row i, column j (1-based) must
\* have: its identifier and the 1-based coordinates of the cells of its run.
ExpectedAcross(i, j) ==
    [id |-> ToString(numbering[i][j]) \o "0000",
     cells |-> [c \in 1..(RunEndRight(i, j) - j + 1) |->
                   [x |-> j + c - 1, y |-> i]]]
ExpectedDown(i, j) ==
    [id |-> ToString(numbering[i][j]) \o "0001",
     cells |-> [c \in 1..(RunEndDown(i, j) - i + 1) |->
                   [x |-> j, y |-> i + c - 1]]]

ExpectedWords ==
    {ExpectedAcross(c[1], c[2]) :
        c \in {d \in Rows \X Cols : AcrossAnchor(d[1], d[2])}}
    \cup {ExpectedDown(c[1], c[2]) :
        c \in {d \in Rows \X Cols : DownAnchor(d[1], d[2])}}

(***************************************************************************)
(* C8: the word-location block holds one word element per entry, listing   *)
(* the cells of the entry's run in order from the anchor cell as 1-based   *)
(* coordinates (x = column + 1, y = row + 1), one coordinate per grid      *)
(* cell: a rebus cell counts once.                                         *)
(***************************************************************************)
C8_WordCells ==
    (IsRectangular(file_rows) /\ Returned("encode_locations")) =>
        /\ {location_strings[k] : k \in 1..Len(location_strings)}
               = ExpectedWords
        /\ Len(location_strings) = Cardinality(ExpectedWords)

\* The block is encoded for a puzzle with an across entry of two cells, one
\* of them a rebus cell that stands for two letters, and a down entry of two
\* cells.
C8_Witness ==
    /\ IsRectangular(file_rows) /\ Returned("encode_locations")
    /\ RebusSymbol \in DOMAIN rebus_dict
    /\ \E n \in DOMAIN answer_dict.across :
        /\ Len(answer_dict.across[n]) = 2
        /\ \E k \in 1..2 : answer_dict.across[n][k] = RebusSymbol
        /\ Len(Expand(answer_dict.across[n], rebus_dict)) = 3
    /\ \E n \in DOMAIN answer_dict.down : Len(answer_dict.down[n]) = 2

(***************************************************************************)
(* C9: in the output of a successful run every across entry N has the      *)
(* word identifier N0000 and every down entry N0001, a clue element of     *)
(* number N refers to N0000 in the across block and to N0001 in the down   *)
(* block, every identifier a clue element refers to is that of an emitted  *)
(* word element, and no two word elements share an identifier.             *)
(***************************************************************************)
C9_Identifiers ==
    (IsRectangular(file_rows) /\ pc = "done") =>
        /\ WordIds = {ToString(e[2]) \o Suffix(e[1]) : e \in Entries}
        /\ Cardinality(WordIds) = Len(location_strings)
        /\ \A dir \in Directions : \A k \in 1..Len(ClueBlock(dir)) :
            /\ \E n \in 0..(MaxCells + 1) :
                /\ ClueBlock(dir)[k].number = ToString(n)
                /\ ClueBlock(dir)[k].word = ToString(n) \o Suffix(dir)
            /\ ClueBlock(dir)[k].word \in WordIds

\* The cell elements of the grid block.
CellElements == SubSeq(grid_strings, 2, Len(grid_strings) - 1)

(***************************************************************************)
(* C10: encode_grid emits one cell element per grid position in row-major  *)
(* order; the cell is a block exactly when its Numbering Grid value is -1; *)
(* otherwise its solution is the rebus expansion of the grid character, or *)
(* the character itself when it is no rebus symbol, it carries a number    *)
(* exactly when its value is positive, and it is circled exactly when its  *)
(* index column + C*row is in the Circle Set.                              *)
(***************************************************************************)
C10_Cells ==
    Returned("encode_grid") =>
        /\ Len(CellElements) = n_rows * n_cols
        /\ \A i \in 0..(n_rows - 1) : \A j \in 0..(n_cols - 1) :
            LET cell == CellElements[i * n_cols + j + 1]
                k == numbering[i + 1][j + 1]
                letter == grid[i + 1][j + 1]
            IN  /\ cell.x = j + 1 /\ cell.y = i + 1
                /\ cell.type = "block" <=> k = -1
                /\ k # -1 =>
                    /\ cell.type = "cell"
                    /\ cell.solution = IF letter \in DOMAIN rebus_dict
                                       THEN rebus_dict[letter] ELSE <<letter>>
                    /\ cell.number # "" <=> k > 0
                    /\ k > 0 => cell.number = ToString(k)
                    /\ cell.circle <=>
                           \E c \in 1..Len(circles) :
                               circles[c] = j + n_cols * i

\* The grid has a block, a circled cell without a number, a circled cell
\* with a number and a cell whose rebus symbol is expanded to two letters.
C10_Witness ==
    /\ Returned("encode_grid")
    /\ \E k \in 1..Len(CellElements) : CellElements[k].type = "block"
    /\ \E k \in 1..Len(CellElements) :
        CellElements[k].circle /\ CellElements[k].number = ""
    /\ \E k \in 1..Len(CellElements) :
        CellElements[k].circle /\ CellElements[k].number # ""
    /\ \E k \in 1..Len(CellElements) : Len(CellElements[k].solution) = 2

\* The clue number a clue element carries (an int or a float64 as printed).
ClueNumber(el) ==
    CHOOSE n \in 0..(MaxCells + 1) :
        el.number \in {ToString(n), ToString(n) \o ".0"}

(***************************************************************************)
(* C11: in the clue blocks the across block comes entirely before the     *)
(* down block, and within each block the clue elements are in ascending    *)
(* clue-number order, whatever the order in which the clues were inserted  *)
(* into the Clue Table.                                                    *)
(***************************************************************************)
C11_ClueOrder ==
    (IsRectangular(file_rows) /\ Returned("encode_clues")) =>
        /\ TitleIndex("Across") < TitleIndex("Down")
        /\ \A dir \in Directions :
            /\ \A k \in 1..Len(ClueBlock(dir)) :
                   ClueBlock(dir)[k].type = "clue"
            /\ \A k \in 1..(Len(ClueBlock(dir)) - 1) :
                   ClueNumber(ClueBlock(dir)[k])
                       < ClueNumber(ClueBlock(dir)[k + 1])

(***************************************************************************)
(* C12: a run that fails produces no output file, and the output file is  *)
(* created only after every method of the analysis has returned and every  *)
(* fragment has been built, from those fragments.                          *)
(***************************************************************************)
C12_NoOutputOnFailure ==
    /\ (pc = "failed" \/ error # "") => jpz_file = <<>>
    /\ jpz_file # <<>> =>
        /\ pc = "done"
        /\ numbering # <<>>
        /\ grid_strings # <<>> /\ clue_strings # <<>>
        /\ jpz_file = <<grid_strings, location_strings, clue_strings>>
    /\ pc # "done" => jpz_file = <<>>

\* The run has failed on a duplicate answer, after the grid was numbered and
\* the Clue Table read.
C12_Witness ==
    /\ pc = "failed" /\ error = "ValueError"
    /\ raised_in = "get_answer_clue_dict"
    /\ numbering # <<>> /\ Len(clue_dict.across) > 0
    /\ jpz_file = <<>>

\* The grid is 3x3 and has no block.
OpenGrid3 ==
    /\ Len(file_rows) = 3
    /\ \A i \in 1..3 : /\ Len(file_rows[i]) = 3
                        /\ \A j \in 1..3 : file_rows[i][j] # Block

(***************************************************************************)
(* C13 as claimed: the Numbering Grid of a 3x3 grid with no block is       *)
(* 1,2,3 / 4,_,_ / 7,_,_.                                                  *)
(***************************************************************************)
C13_OpenGridSeven ==
    (OpenGrid3 /\ Returned("get_numbering")) =>
        numbering = <<<<1, 2, 3>>, <<4, 0, 0>>, <<7, 0, 0>>>>

(***************************************************************************)
(* C13 as amended: the Numbering Grid of a 3x3 grid with no block is       *)
(* 1,2,3 / 4,_,_ / 5,_,_: the counter advances by one per numbered cell.   *)
(***************************************************************************)
C13_OpenGridFive ==
    (OpenGrid3 /\ Returned("get_numbering")) =>
        numbering = <<<<1, 2, 3>>, <<4, 0, 0>>, <<5, 0, 0>>>>

C13_Witness ==
    /\ OpenGrid3 /\ Returned("get_numbering")
    /\ numbering[3][1] = 5 /\ numbering[3][2] = 0

\* The Clue Table has been read and holds a clue for every entry of the 5x5
\* grid of As, which has no rebus and no circles.
GridOfAsClued ==
    /\ file_rows = OpenGridOfAs
    /\ Returned("get_clue_dict")
    /\ rebus_dict = EmptyDict /\ circles = <<>>
    /\ \A e \in Entries : HasClue(e[1], e[2])

(***************************************************************************)
(* C14 as claimed: the 5x5 grid of As with a clue for every entry is       *)
(* converted successfully, its top row numbered 1 to 5 and the word of     *)
(* the entry anchored at number 1 holding exactly 5 cell coordinates.      *)
(***************************************************************************)
C14_GridOfAsConverted ==
    GridOfAsClued =>
        /\ pc # "failed"
        /\ numbering[1] = <<1, 2, 3, 4, 5>>
        /\ Returned("encode_locations") =>
               \E k \in 1..Len(location_strings) :
                   /\ location_strings[k].id = "10000"
                   /\ Len(location_strings[k].cells) = 5

(***************************************************************************)
(* C14 as amended: the 5x5 grid of As with a clue for every entry has its  *)
(* top row numbered 1 to 5 and every answer equal to AAAAA, and is         *)
(* rejected by get_answer_clue_dict with the duplicate-answer ValueError:  *)
(* no word-location block and no output file is produced.                  *)
(***************************************************************************)
C14_GridOfAsRejected ==
    GridOfAsClued =>
        /\ numbering[1] = <<1, 2, 3, 4, 5>>
        /\ \A e \in Entries :
               answer_dict[e[1]][e[2]] = <<"A", "A", "A", "A", "A">>
        /\ ~Returned("get_answer_clue_dict")
        /\ pc = "failed" =>
               error = "ValueError" /\ raised_in = "get_answer_clue_dict"
        /\ location_strings = <<>> /\ jpz_file = <<>>

C14_Witness ==
    /\ GridOfAsClued
    /\ pc = "failed" /\ error = "ValueError"
    /\ Cardinality(Entries) = 10

\* The word elements of a direction, and the direction and number of one.
IsAcrossWord(w) == \E n \in 0..(MaxCells + 1) : w.id = ToString(n) \o "0000"
IsDownWord(w) == \E n \in 0..(MaxCells + 1) : w.id = ToString(n) \o "0001"
WordNumber(w) ==
    CHOOSE n \in 0..(MaxCells + 1) :
        w.id \in {ToString(n) \o "0000", ToString(n) \o "0001"}

\* The indices of the word elements that list the cell x, y.
WordsAt(x, y, IsDir(_)) ==
    {k \in 1..Len(location_strings) :
        /\ IsDir(location_strings[k])
        /\ \E c \in 1..Len(location_strings[k].cells) :
               location_strings[k].cells[c] = [x |-> x, y |-> y]}

(***************************************************************************)
(* C15: for a rectangular grid every open cell is listed once in exactly   *)
(* one across word and once in exactly one down word, no word lists a      *)
(* blocked cell or a coordinate outside the grid, and the words are in     *)
(* ascending clue-number order, the across word of a number before its     *)
(* down word.                                                              *)
(***************************************************************************)
C15_Partition ==
    (IsRectangular(file_rows) /\ Returned("encode_locations")) =>
        /\ \A k \in 1..Len(location_strings) :
            LET w == location_strings[k]
            IN  /\ IsAcrossWord(w) # IsDownWord(w)
                /\ \A c \in 1..Len(w.cells) :
                    /\ w.cells[c].y \in Rows /\ w.cells[c].x \in Cols
                    /\ Open(w.cells[c].y, w.cells[c].x)
                    /\ \A d \in 1..Len(w.cells) :
                           w.cells[d] = w.cells[c] => d = c
        /\ \A i \in Rows : \A j \in Cols :
            Open(i, j) =>
                /\ Cardinality(WordsAt(j, i, IsAcrossWord)) = 1
                /\ Cardinality(WordsAt(j, i, IsDownWord)) = 1
        /\ \A k \in 1..(Len(location_strings) - 1) :
            LET w == location_strings[k]
                next == location_strings[k + 1]
            IN  \/ WordNumber(w) < WordNumber(next)
                \/ /\ WordNumber(w) = WordNumber(next)
                   /\ IsAcrossWord(w) /\ IsDownWord(next)

\* A grid with a blocked cell and a number that anchors both an across and
\* a down word of two cells or more, after another number.
C15_Witness ==
    /\ IsRectangular(file_rows) /\ Returned("encode_locations")
    /\ \E i \in Rows : \E j \in Cols : ~Open(i, j)
    /\ \E k \in 2..(Len(location_strings) - 1) :
        /\ IsAcrossWord(location_strings[k])
        /\ IsDownWord(location_strings[k + 1])
        /\ WordNumber(location_strings[k])
               = WordNumber(location_strings[k + 1])
        /\ Len(location_strings[k].cells) >= 2
        /\ Len(location_strings[k + 1].cells) >= 2

====
